---- MODULE Spec2Model ----
(***************************************************************************)
(* A model of smokey (src/main.go): a contextual epsilon-greedy bandit.    *)
(*                                                                         *)
(* float64 values are modelled as exact rationals <<n, d>> in lowest terms *)
(* (d > 0), so 0.1 is <<1, 10>>.  Go's 0-based indices are kept; a Go      *)
(* slice x is a TLA+ sequence and x[i] is written At(x, i).  A Go map is a *)
(* function whose DOMAIN is the set of its keys.  A *Bandit is a record    *)
(* carrying its address in the field ptr, so that the pointer comparison   *)
(* of UpdateReward can be told from a comparison of the pointed values.    *)
(***************************************************************************)
EXTENDS Integers, Sequences, FiniteSets, TLC

VARIABLES
    pc,         \* the position of the running process
    flagTrain,  \* main: the --train flag
    argCtx,     \* loadModelAndSelectAnItem: the context built from the flags
    rows,       \* getTrainingData: the rows it.Next has delivered so far
    contexts,   \* getTrainingData: contexts
    bandits,    \* getTrainingData: bandits
    s,          \* the EpsilonGreedyStrategy value
    ci,         \* trainModel: position of the loop over contexts
    ti,         \* trainModel: i of the loop over trials
    file,       \* strategy.gob: NoFile, or <<the encoded strategy>>
    status,     \* "running", "ok", "fatal" (log.Fatal) or "panic"
    out,        \* the item identifier logged as recommended, or NoItem
    loadErr,    \* whether LoadState returned an error in this process
    last,       \* the last call of SelectBandit or UpdateReward and its outcome
    hist        \* per (context, arm index): the rewards UpdateReward was given

vars == <<pc, flagTrain, argCtx, rows, contexts, bandits, s, ci, ti, file,
          status, out, loadErr, last, hist>>

---------------------------------------------------------------------------
(* Bounds *)

\* rows the data source delivers at most
MaxRows == 3
\* trials per context (10000 in the source)
NumTrials == 2
\* arms of a catalog in the engine specification
MaxArms == 2
\* calls of UpdateReward in the engine specification
MaxCalls == 3

Users == {"u1"}
Items == {"a", "b"}
Devices == {"mobile"}

\* strategy.gob is <<>> while it does not exist and <<blob>> once written
NoFile == <<>>
NoItem == "NoItem"
NilPtr == 0

---------------------------------------------------------------------------
(* float64, exactly *)

Abs(n) == IF n < 0 THEN -n ELSE n

RECURSIVE GCD(_, _)
GCD(a, b) == IF b = 0 THEN a ELSE GCD(b, a % b)

Norm(n, d) ==
    LET g == GCD(Abs(n), d)
    IN  <<(IF n < 0 THEN -(Abs(n) \div g) ELSE n \div g), d \div g>>

Zero == <<0, 1>>
One == <<1, 1>>
Tenth == <<1, 10>>
Half == <<1, 2>>

FromInt(n) == <<n, 1>>
RAdd(x, y) == Norm(x[1] * y[2] + y[1] * x[2], x[2] * y[2])
RSub(x, y) == Norm(x[1] * y[2] - y[1] * x[2], x[2] * y[2])
RMul(x, y) == Norm(x[1] * y[1], x[2] * y[2])
\* x / float64(n), n > 0
RDivInt(x, n) == Norm(x[1], x[2] * n)
RLt(x, y) == x[1] * y[2] < y[1] * x[2]
RGt(x, y) == RLt(y, x)

---------------------------------------------------------------------------
(* slices and maps *)

At(x, i) == x[i + 1]
SetAt(x, i, v) == [x EXCEPT ![i + 1] = v]
\* make([]T, n): n zero values
Make(n, zero) == [i \in 1..n |-> zero]
EmptyMap == [k \in {} |-> Zero]
MapPut(m, k, v) == [x \in DOMAIN m \cup {k} |-> IF x = k THEN v ELSE m[x]]
\* m[k] of a map of float64: the zero value when k is no key
MapGet(m, k) == IF k \in DOMAIN m THEN m[k] ELSE Zero
\* m[k] of a map of slices: the nil slice when k is no key
SliceOf(m, k) == IF k \in DOMAIN m THEN m[k] ELSE <<>>

---------------------------------------------------------------------------
(* Bandit and EpsilonGreedyStrategy *)

\* &Bandit{ItemID: item, ContextRewards: cr}, allocated at address p
Bandit(p, item, cr) == [ptr |-> p, ItemID |-> item, ContextRewards |-> cr]

Pull(b, ctx) ==
    IF ctx \notin DOMAIN b.ContextRewards THEN Zero ELSE b.ContextRewards[ctx]

\* &EpsilonGreedyStrategy{Epsilon: eps, Bandits: bs, Rewards: make(..), Counts: make(..)}
Strategy(eps, bs) ==
    [Epsilon |-> eps, Bandits |-> bs, Rewards |-> EmptyMap, Counts |-> EmptyMap]

\* the values rand.Intn(n) can return; it panics when n <= 0
Intn(n) == 0 .. (n - 1)
\* the draws of rand.Intn an action enumerates (one unused draw when Intn would panic)
IntnDraws(n) == IF n <= 0 THEN {0} ELSE Intn(n)
\* the values of rand.Float64(), in [0, 1), the model draws
Float64Draws == {Zero, Half}

\* ExploitScan with >= for >: it keeps the last of equal maxima
RECURSIVE ExploitScanLast(_, _, _, _)
ExploitScanLast(rewards, i, maxReward, maxIndex) ==
    IF i >= Len(rewards) THEN maxIndex
    ELSE IF ~RLt(At(rewards, i), maxReward)
         THEN ExploitScanLast(rewards, i + 1, At(rewards, i), i)
         ELSE ExploitScanLast(rewards, i + 1, maxReward, maxIndex)

\* the loop of the exploit branch, from index i with the maximum so far
RECURSIVE ExploitScan(_, _, _, _)
ExploitScan(rewards, i, maxReward, maxIndex) ==
    IF i >= Len(rewards) THEN maxIndex
    ELSE IF RGt(At(rewards, i), maxReward)
         THEN ExploitScan(rewards, i + 1, At(rewards, i), i)
         ELSE ExploitScan(rewards, i + 1, maxReward, maxIndex)

ExploitIndex(rewards) == ExploitScan(rewards, 0, At(rewards, 0), 0)

\* s.Bandits[i]: the arm, or a panic when i is out of range
Indexed(st, branch, i) ==
    IF i \in 0 .. Len(st.Bandits) - 1
    THEN [outcome |-> "ok", branch |-> branch, index |-> i, arm |-> At(st.Bandits, i).ptr]
    ELSE [outcome |-> "panic", branch |-> branch, index |-> i, arm |-> NilPtr]

\* SelectBandit with 1-based indices into the 0-based s.Bandits
SelectBanditOffByOne(st, ctx, u, k) ==
    IF RLt(u, st.Epsilon) \/ Len(SliceOf(st.Rewards, ctx)) = 0
    THEN Indexed(st, "explore", k + 1)
    ELSE Indexed(st, "exploit", ExploitIndex(st.Rewards[ctx]) + 1)

\* u is the value of rand.Float64(), k that of rand.Intn(len(s.Bandits))
SelectBandit(st, ctx, u, k) ==
    IF RLt(u, st.Epsilon) \/ Len(SliceOf(st.Rewards, ctx)) = 0
    THEN IF Len(st.Bandits) <= 0
         THEN [outcome |-> "panic", branch |-> "explore", index |-> 0, arm |-> NilPtr]
         ELSE Indexed(st, "explore", k)
    ELSE Indexed(st, "exploit", ExploitIndex(st.Rewards[ctx]))

\* line 81 without the weight of the old average
IncrementalMeanUnweighted(old, count, reward) ==
    RDivInt(RAdd(old, reward), count)

\* line 81 with the old average weighted by the new count
IncrementalMeanOverweighted(old, count, reward) ==
    RDivInt(RAdd(RMul(old, FromInt(count)), reward), count)

\* line 81, with count the incremented s.Counts[ctx][i]
IncrementalMean(old, count, reward) ==
    RDivInt(RAdd(RMul(old, FromInt(count - 1)), reward), count)

\* the body of UpdateReward's loop from index i on; b is the address of the arm
RECURSIVE UpdateLoop(_, _, _, _, _)
UpdateLoop(st, ctx, b, reward, i) ==
    IF i >= Len(st.Bandits) THEN [s |-> st, outcome |-> "ok"]
    ELSE IF At(st.Bandits, i).ptr # b THEN UpdateLoop(st, ctx, b, reward, i + 1)
    ELSE IF i >= Len(SliceOf(st.Counts, ctx)) \/ i >= Len(SliceOf(st.Rewards, ctx))
         THEN [s |-> st, outcome |-> "panic"]
         ELSE LET count == At(st.Counts[ctx], i) + 1
                  avg == IncrementalMean(At(st.Rewards[ctx], i), count, reward)
                  st2 == [st EXCEPT !.Counts[ctx] = SetAt(@, i, count),
                                    !.Rewards[ctx] = SetAt(@, i, avg)]
              IN  UpdateLoop(st2, ctx, b, reward, i + 1)

UpdateReward(st, ctx, b, reward) == UpdateLoop(st, ctx, b, reward, 0)

---------------------------------------------------------------------------
(* getTrainingData *)

\* bigquery.NullDateTime: Valid, and the hour and the weekday of the DateTime
NullDateTime == [Valid |-> FALSE, Hour |-> 0, Weekday |-> ""]
Timestamps == {NullDateTime, [Valid |-> TRUE, Hour |-> 9, Weekday |-> "monday"]}

\* the rows (TrainingData) the data source can deliver
Rows ==
    [UserID : Users, ItemID : Items, Timestamp : Timestamps,
     HasClick : BOOLEAN, Device : Devices]

TimeOfDay(ts) ==
    IF ~ts.Valid THEN ""
    ELSE IF ts.Hour < 4 THEN "night"
    ELSE IF ts.Hour < 12 THEN "morning"
    ELSE IF ts.Hour < 18 THEN "afternoon"
    ELSE IF ts.Hour < 22 THEN "evening"
    ELSE "night"

WeekdayOf(ts) == IF ~ts.Valid THEN "" ELSE ts.Weekday

Context(user, timeOfDay, weekday, device) ==
    [UserID |-> user, TimeOfDay |-> timeOfDay, Weekday |-> weekday, Device |-> device]

RowContext(row) ==
    Context(row.UserID, TimeOfDay(row.Timestamp), WeekdayOf(row.Timestamp), row.Device)

\* the index of the first bandit from index i on with this ItemID, or -1
RECURSIVE FindItem(_, _, _)
FindItem(bs, item, i) ==
    IF i >= Len(bs) THEN -1
    ELSE IF At(bs, i).ItemID = item THEN i
    ELSE FindItem(bs, item, i + 1)

\* lines 231-258: the bandits after one row
AddRow(bs, row) ==
    LET ctx == RowContext(row)
        i == FindItem(bs, row.ItemID, 0)
    IN  IF i >= 0
        THEN LET b == At(bs, i)
                 v == IF row.HasClick
                      THEN RAdd(MapGet(b.ContextRewards, ctx), One)
                      ELSE RSub(MapGet(b.ContextRewards, ctx), Tenth)
             IN  SetAt(bs, i, [b EXCEPT !.ContextRewards = MapPut(@, ctx, v)])
        ELSE LET reward == IF row.HasClick THEN One ELSE Zero
             IN  Append(bs, Bandit(Len(bs) + 1, row.ItemID, MapPut(EmptyMap, ctx, reward)))

---------------------------------------------------------------------------
(* SaveState and LoadState: encoding/gob *)

\* gob sends the exported fields of the value and flattens pointers: what
\* Encode writes for a *Bandit is the Bandit's ItemID and ContextRewards
EncodeBandit(b) == [ItemID |-> b.ItemID, ContextRewards |-> b.ContextRewards]

Encode(st) ==
    [Epsilon |-> st.Epsilon,
     Bandits |-> [i \in 1 .. Len(st.Bandits) |-> EncodeBandit(st.Bandits[i])],
     Rewards |-> st.Rewards,
     Counts |-> st.Counts]

\* the union of the map the receiver holds and the decoded map
MapMerge(m, d) == [k \in DOMAIN m \cup DOMAIN d |-> IF k \in DOMAIN d THEN d[k] ELSE m[k]]

\* Decode into the receiver st: every decoded *Bandit is a new allocation
Decode(blob, st) ==
    [Epsilon |-> blob.Epsilon,
     Bandits |-> [i \in 1 .. Len(blob.Bandits) |->
                    Bandit(i, blob.Bandits[i].ItemID, blob.Bandits[i].ContextRewards)],
     Rewards |-> MapMerge(st.Rewards, blob.Rewards),
     Counts |-> MapMerge(st.Counts, blob.Counts)]

---------------------------------------------------------------------------
(* the process: main, trainModel, loadModelAndSelectAnItem *)

NoCtx == Context("", "", "", "")
NoCall ==
    [op |-> "none", ctx |-> NoCtx, outcome |-> "ok", branch |-> "", index |-> -1,
     arm |-> NilPtr]

\* a call of SelectBandit(ctx) and what it did
SelectCall(ctx, sel) ==
    [op |-> "SelectBandit", ctx |-> ctx, outcome |-> sel.outcome, branch |-> sel.branch,
     index |-> sel.index, arm |-> sel.arm]

\* a call of UpdateReward(ctx, b, reward) and how it ended
UpdateCall(ctx, b, outcome) ==
    [op |-> "UpdateReward", ctx |-> ctx, outcome |-> outcome, branch |-> "", index |-> -1,
     arm |-> b]

\* Epsilon: 0.1, in trainModel and in loadModelAndSelectAnItem
Epsilon == Tenth

\* the contexts the flags of a selection can name
SelectContexts ==
    {Context("u1", "", "", "mobile"), Context("u1", "morning", "monday", "mobile")}

\* lines 130-131 with the counts one short of the arms
InitSlotsShort(st, ctx, n) ==
    [st EXCEPT !.Rewards = MapPut(@, ctx, Make(n, Zero)),
               !.Counts = MapPut(@, ctx, Make(n - 1, 0))]

\* lines 130-131: fresh slots for ctx, one per arm
InitSlots(st, ctx, n) ==
    [st EXCEPT !.Rewards = MapPut(@, ctx, Make(n, Zero)),
               !.Counts = MapPut(@, ctx, Make(n, 0))]

Init ==
    /\ pc = "main"
    /\ flagTrain = FALSE
    /\ argCtx = NoCtx
    /\ rows = <<>>
    /\ contexts = <<>>
    /\ bandits = <<>>
    /\ s = Strategy(Epsilon, <<>>)
    /\ ci = 0
    /\ ti = 0
    /\ file = NoFile
    /\ status = "running"
    /\ out = NoItem
    /\ loadErr = FALSE
    /\ last = NoCall
    /\ hist = EmptyMap

\* main with --train: trainModel calls getTrainingData
MainTrain ==
    /\ pc = "main"
    /\ flagTrain' = TRUE
    /\ pc' = "fetch"
    /\ UNCHANGED <<argCtx, rows, contexts, bandits, s, ci, ti, file, status, out,
                   loadErr, last, hist>>

\* getTrainingData: it.Next delivers a row
FetchRow(row) ==
    /\ pc = "fetch"
    /\ Len(rows) < MaxRows
    /\ rows' = Append(rows, row)
    /\ contexts' = Append(contexts, RowContext(row))
    /\ bandits' = AddRow(bandits, row)
    /\ UNCHANGED <<pc, flagTrain, argCtx, s, ci, ti, file, status, out, loadErr,
                   last, hist>>

\* getTrainingData: the client, the query or it.Next fails: log.Fatalf
FetchFail ==
    /\ pc = "fetch"
    /\ status' = "fatal"
    /\ pc' = "exit"
    /\ UNCHANGED <<flagTrain, argCtx, rows, contexts, bandits, s, ci, ti, file, out,
                   loadErr, last, hist>>

\* getTrainingData: iterator.Done, and it returns contexts and bandits (the rows
\* read are gone with it); trainModel builds the strategy
FetchDone ==
    /\ pc = "fetch"
    /\ rows' = <<>>
    /\ s' = Strategy(Epsilon, bandits)
    /\ ci' = 0
    /\ ti' = 0
    /\ pc' = "train"
    /\ UNCHANGED <<flagTrain, argCtx, contexts, bandits, file, status, out,
                   loadErr, last, hist>>

\* trainModel: the head of the loop over contexts
BeginContext ==
    /\ pc = "train"
    /\ ci < Len(contexts)
    /\ s' = InitSlots(s, At(contexts, ci), Len(bandits))
    /\ ti' = 0
    /\ pc' = "trial"
    /\ UNCHANGED <<flagTrain, argCtx, rows, contexts, bandits, ci, file, status, out,
                   loadErr, last, hist>>

\* trainModel: one trial, and the step to the next trial or the next context
Trial(u, k) ==
    /\ pc = "trial"
    /\ ti < NumTrials
    /\ LET ctx == At(contexts, ci)
           sel == SelectBandit(s, ctx, u, k)
       IN  /\ last' = SelectCall(ctx, sel)
           /\ IF sel.outcome = "panic"
              THEN /\ status' = "panic"
                   /\ pc' = "exit"
                   /\ UNCHANGED <<s, ci, ti>>
              ELSE LET bandit == At(s.Bandits, sel.index)
                       upd == UpdateReward(s, ctx, bandit.ptr, Pull(bandit, ctx))
                   IN  /\ s' = upd.s
                       /\ IF upd.outcome = "panic"
                          THEN /\ status' = "panic"
                               /\ pc' = "exit"
                               /\ UNCHANGED <<ci, ti>>
                          ELSE /\ ti' = ti + 1
                               /\ ci' = IF ti + 1 < NumTrials THEN ci ELSE ci + 1
                               /\ pc' = IF ti + 1 < NumTrials THEN "trial" ELSE "train"
                               /\ UNCHANGED status
    /\ UNCHANGED <<flagTrain, argCtx, rows, contexts, bandits, file, out, loadErr, hist>>

\* trainModel: SaveState after the loop; log.Fatal when it returns an error
SaveState(ok) ==
    /\ pc = "train"
    /\ ci >= Len(contexts)
    /\ file' = IF ok THEN <<Encode(s)>> ELSE file
    /\ status' = IF ok THEN "ok" ELSE "fatal"
    /\ pc' = "exit"
    /\ UNCHANGED <<flagTrain, argCtx, rows, contexts, bandits, s, ci, ti, out, loadErr,
                   last, hist>>

\* main without --train, as the first process or as a process started after a
\* training process has ended: loadModelAndSelectAnItem builds its strategy.
\* (A training process never reads strategy.gob and SaveState overwrites it as a
\* whole, so a second training process repeats the first.)
MainSelect(c) ==
    /\ pc = "main" \/ (pc = "exit" /\ flagTrain)
    /\ flagTrain' = FALSE
    /\ argCtx' = c
    /\ rows' = <<>>
    /\ contexts' = <<>>
    /\ bandits' = <<>>
    /\ s' = Strategy(Epsilon, <<>>)
    /\ ci' = 0
    /\ ti' = 0
    /\ status' = "running"
    /\ out' = NoItem
    /\ loadErr' = FALSE
    /\ last' = NoCall
    /\ pc' = "load"
    /\ UNCHANGED <<file, hist>>

\* LoadState; line 158 drops the error it returns. ioerr: os.Open fails though
\* the file exists
LoadState(ioerr) ==
    /\ pc = "load"
    /\ IF file = NoFile \/ ioerr
       THEN /\ loadErr' = TRUE
            /\ UNCHANGED s
       ELSE /\ loadErr' = FALSE
            /\ s' = Decode(file[1], s)
    /\ pc' = "select"
    /\ UNCHANGED <<flagTrain, argCtx, rows, contexts, bandits, ci, ti, file, status, out,
                   last, hist>>

\* lines 162-166: SelectBandit and the log line
Select(u, k) ==
    /\ pc = "select"
    /\ LET sel == SelectBandit(s, argCtx, u, k)
       IN  /\ last' = SelectCall(argCtx, sel)
           /\ status' = IF sel.outcome = "ok" THEN "ok" ELSE "panic"
           /\ out' = IF sel.outcome = "ok" THEN At(s.Bandits, sel.index).ItemID ELSE NoItem
    /\ pc' = "exit"
    /\ UNCHANGED <<flagTrain, argCtx, rows, contexts, bandits, s, ci, ti, file, loadErr,
                   hist>>

Next ==
    \/ MainTrain
    \/ \E row \in Rows : FetchRow(row)
    \/ FetchFail
    \/ FetchDone
    \/ BeginContext
    \/ \E u \in Float64Draws : \E k \in IntnDraws(Len(s.Bandits)) : Trial(u, k)
    \/ \E ok \in BOOLEAN : SaveState(ok)
    \/ \E c \in SelectContexts : MainSelect(c)
    \/ \E ioerr \in BOOLEAN : LoadState(ioerr)
    \/ \E u \in Float64Draws : \E k \in IntnDraws(Len(s.Bandits)) : Select(u, k)

Spec == Init /\ [][Next]_vars

---------------------------------------------------------------------------
(* the engine alone: SelectBandit and UpdateReward called by any caller *)

\* exploration rates: 0.0, 0.1 and 1.0
Epsilons == {Zero, Tenth, One}
\* the rewards a caller observes
Observed == {One, <<-1, 10>>}
ItemNames == <<"a", "b", "c", "d", "e">>

\* a catalog of n arms, none of them pulled in training
Catalog(n) == [i \in 1 .. n |-> Bandit(i, ItemNames[i], EmptyMap)]

\* the addresses of the arms of the catalog
CatalogPtrs(st) == {st.Bandits[i].ptr : i \in 1 .. Len(st.Bandits)}

\* what hist holds for a slot: the number of updates and the sum of their rewards
HistOf(h, ctx, i) == IF <<ctx, i>> \in DOMAIN h THEN h[<<ctx, i>>] ELSE [k |-> 0, sum |-> Zero]

RECURSIVE SumK(_, _)
SumK(h, keys) ==
    IF keys = {} THEN 0
    ELSE LET x == CHOOSE y \in keys : TRUE
         IN  h[x].k + SumK(h, keys \ {x})

\* hist after an update of (ctx, the arms at address b) by reward
Record(h, st, ctx, b, reward) ==
    LET hit == {i \in 0 .. Len(st.Bandits) - 1 : At(st.Bandits, i).ptr = b}
    IN  [x \in DOMAIN h \cup {<<ctx, i>> : i \in hit} |->
            IF x[1] = ctx /\ x[2] \in hit
            THEN [k |-> HistOf(h, ctx, x[2]).k + 1,
                  sum |-> RAdd(HistOf(h, ctx, x[2]).sum, reward)]
            ELSE h[x]]

EngineInit ==
    /\ pc = "engine"
    /\ flagTrain = FALSE
    /\ argCtx = NoCtx
    /\ rows = <<>>
    /\ contexts = <<>>
    /\ bandits = <<>>
    /\ s \in {Strategy(eps, Catalog(n)) : eps \in Epsilons, n \in 0 .. MaxArms}
    /\ ci = 0
    /\ ti = 0
    /\ file = NoFile
    /\ status = "running"
    /\ out = NoItem
    /\ loadErr = FALSE
    /\ last = NoCall
    /\ hist = EmptyMap

\* the caller gives a context it has not used yet its slots, as trainModel does;
\* last is a call made in the state s, so it does not outlive a change of s
EngineInitSlots(ctx) ==
    /\ pc = "engine"
    /\ ctx \notin DOMAIN s.Rewards
    /\ s' = InitSlots(s, ctx, Len(s.Bandits))
    /\ last' = NoCall
    /\ UNCHANGED <<pc, flagTrain, argCtx, rows, contexts, bandits, ci, ti, file, status,
                   out, loadErr, hist>>

EngineSelect(ctx, u, k) ==
    /\ pc = "engine"
    /\ last' = SelectCall(ctx, SelectBandit(s, ctx, u, k))
    /\ UNCHANGED <<pc, flagTrain, argCtx, rows, contexts, bandits, s, ci, ti, file,
                   status, out, loadErr, hist>>

\* b is the address of an arm of the catalog, or of an arm that is not in it
EngineUpdate(ctx, b, reward) ==
    /\ pc = "engine"
    /\ SumK(hist, DOMAIN hist) < MaxCalls
    /\ LET upd == UpdateReward(s, ctx, b, reward)
       IN  /\ s' = upd.s
           /\ last' = UpdateCall(ctx, b, upd.outcome)
           /\ hist' = IF upd.outcome = "ok" THEN Record(hist, s, ctx, b, reward) ELSE hist
    /\ UNCHANGED <<pc, flagTrain, argCtx, rows, contexts, bandits, ci, ti, file, status,
                   out, loadErr>>

EngineNext ==
    \/ \E ctx \in SelectContexts : EngineInitSlots(ctx)
    \/ \E ctx \in SelectContexts : \E u \in Float64Draws :
          \E k \in IntnDraws(Len(s.Bandits)) : EngineSelect(ctx, u, k)
    \/ \E ctx \in SelectContexts : \E b \in 1 .. Len(s.Bandits) + 1 :
          \E reward \in Observed : EngineUpdate(ctx, b, reward)

EngineSpec == EngineInit /\ [][EngineNext]_vars

---------------------------------------------------------------------------
(* Properties *)

Indices(x) == 0 .. Len(x) - 1
PolicyContexts == DOMAIN s.Rewards \cup DOMAIN s.Counts

\* C1: with a catalog of N >= 1 arms, SelectBandit ends normally with an index in
\* 0..N-1, in either branch, and returns the arm at that index, never a nil arm.
C1_SelectReturnsCatalogArm ==
    (last.op = "SelectBandit" /\ Len(s.Bandits) >= 1) =>
        /\ last.outcome = "ok"
        /\ last.index \in Indices(s.Bandits)
        /\ last.arm # NilPtr
        /\ last.arm = At(s.Bandits, last.index).ptr

\* C1 witness: an exploiting call that returned the last arm of a catalog of 2 or more.
C1_Witness ==
    /\ last.op = "SelectBandit"
    /\ last.branch = "exploit"
    /\ Len(s.Bandits) >= 2
    /\ last.index = Len(s.Bandits) - 1

\* C2: with exploration rate 0 and a context that has rewards, SelectBandit returns
\* the lowest index among those holding the greatest running average.
C2_ExploitLowestMaximum ==
    (last.op = "SelectBandit" /\ s.Epsilon = Zero /\ Len(SliceOf(s.Rewards, last.ctx)) > 0) =>
        LET r == s.Rewards[last.ctx]
        IN  /\ last.outcome = "ok"
            /\ last.index \in Indices(r)
            /\ \A j \in Indices(r) : ~RGt(At(r, j), At(r, last.index))
            /\ \A j \in Indices(r) : j < last.index => RLt(At(r, j), At(r, last.index))

\* C2 witness: exploration rate 0, two pulled arms share the maximum, the call
\* returned the lower of the two.
C2_Witness ==
    /\ last.op = "SelectBandit"
    /\ s.Epsilon = Zero
    /\ Len(SliceOf(s.Rewards, last.ctx)) >= 2
    /\ LET r == s.Rewards[last.ctx]
           c == s.Counts[last.ctx]
       IN  \E i, j \in Indices(r) :
              /\ i < j
              /\ At(r, i) = At(r, j)
              /\ At(c, i) > 0 /\ At(c, j) > 0
              /\ \A k \in Indices(r) : ~RGt(At(r, k), At(r, i))
              /\ last.index = i

\* C3: after K updates of a slot that started zeroed, its count is K and its
\* average times K is the sum of the K rewards, whatever else was updated between.
C3_IncrementalMean ==
    \A ctx \in PolicyContexts : \A i \in Indices(SliceOf(s.Rewards, ctx)) :
        LET h == HistOf(hist, ctx, i)
        IN  /\ At(s.Counts[ctx], i) = h.k
            /\ RMul(At(s.Rewards[ctx], i), FromInt(h.k)) = h.sum

\* C3 witness: a slot updated twice with different rewards (1.0 and -0.1: mean 9/20)
\* while another slot was updated too.
C3_Witness ==
    \E x, y \in DOMAIN hist :
        /\ x # y
        /\ hist[x].k = 2
        /\ hist[y].k >= 1
        /\ At(s.Rewards[x[1]], x[2]) = <<9, 20>>

\* the records read so far that name item in context ctx, clicked or not
Records(item, ctx, clicked) ==
    {j \in 1 .. Len(rows) :
        /\ rows[j].ItemID = item
        /\ RowContext(rows[j]) = ctx
        /\ rows[j].HasClick = clicked}

\* C4: while records are read, every arm's accumulator for every context is 1.0
\* times the clicked records minus 0.1 times the other records naming its item there.
C4_AccumulatorCountsRecords ==
    pc = "fetch" =>
        \A i \in Indices(bandits) : \A ctx \in {RowContext(r) : r \in Rows} :
            Pull(At(bandits, i), ctx) =
                RSub(FromInt(Cardinality(Records(At(bandits, i).ItemID, ctx, TRUE))),
                     RMul(Tenth, FromInt(Cardinality(Records(At(bandits, i).ItemID, ctx, FALSE)))))

\* C5: from one step of the training loop to the next, a context of the policy
\* state stays in it and none of its pull counts decreases.
C5_CountsNeverDecrease ==
    [][(pc \in {"train", "trial"} /\ pc' \in {"train", "trial"}) =>
          \A ctx \in DOMAIN s.Counts :
              /\ ctx \in DOMAIN s'.Counts
              /\ \A i \in Indices(s.Counts[ctx]) :
                    /\ i \in Indices(s'.Counts[ctx])
                    /\ At(s'.Counts[ctx], i) >= At(s.Counts[ctx], i)]_vars

\* C6: UpdateReward with an arm that is not in the catalog ends in a failure.
C6_UnknownArmFails ==
    (last.op = "UpdateReward" /\ last.arm \notin CatalogPtrs(s)) => last.outcome = "panic"

\* C7: once LoadState has failed in a selection, SelectBandit is not called, no item
\* is reported, and the process ends in a fatal error.
C7_LoadErrorIsFatal ==
    (~flagTrain /\ loadErr) =>
        /\ last.op # "SelectBandit"
        /\ out = NoItem
        /\ pc = "exit" => status = "fatal"

\* C8: the saved state holds no arm's synthetic reward table.
C8_NoAccumulatorSaved ==
    file # NoFile =>
        \A i \in 1 .. Len(file[1].Bandits) : DOMAIN file[1].Bandits[i].ContextRewards = {}

\* C9: every context of the policy state has as many rewards and as many counts as
\* the catalog has arms, and no count is negative.
C9_SlotsMatchCatalog ==
    \A ctx \in PolicyContexts :
        /\ Len(SliceOf(s.Rewards, ctx)) = Len(s.Bandits)
        /\ Len(SliceOf(s.Counts, ctx)) = Len(s.Bandits)
        /\ \A i \in Indices(SliceOf(s.Counts, ctx)) : At(s.Counts[ctx], i) >= 0

\* C9 witness: training has ended with two contexts and two arms, one arm pulled.
C9_Witness ==
    /\ pc = "exit" /\ flagTrain /\ status = "ok"
    /\ Cardinality(PolicyContexts) = 2
    /\ Len(s.Bandits) = 2
    /\ \E ctx \in PolicyContexts : \E i \in Indices(s.Counts[ctx]) : At(s.Counts[ctx], i) > 0

\* C10: in the training loop a slot never pulled holds 0, and a pulled slot holds
\* what Pull returns for its arm in its context.
C10_AverageIsPull ==
    (flagTrain /\ pc \in {"train", "trial", "exit"}) =>
        \A ctx \in DOMAIN s.Rewards : \A i \in Indices(s.Rewards[ctx]) :
            IF At(s.Counts[ctx], i) = 0
            THEN At(s.Rewards[ctx], i) = Zero
            ELSE At(s.Rewards[ctx], i) = Pull(At(s.Bandits, i), ctx)

\* C10 witness: inside the loop, a slot pulled twice whose arm's accumulator is 0.9
\* (a click and a later non-click), next to a slot never pulled.
C10_Witness ==
    /\ pc = "trial"
    /\ \E ctx \in DOMAIN s.Rewards : \E i, j \in Indices(s.Rewards[ctx]) :
          /\ At(s.Counts[ctx], i) = 2
          /\ At(s.Rewards[ctx], i) = <<9, 10>>
          /\ At(s.Counts[ctx], j) = 0

====
